---- MODULE Spec2Model ----
(***************************************************************************)
(* A model of Python-DTO: the type checker (type_checker.py) and the field *)
(* descriptor, metaclass and DTO base class (pydto.py).                    *)
(*                                                                         *)
(* Python values are records [k |-> kind, v |-> payload]; type expressions *)
(* are records [tag |-> ..., x |-> ...] in the shape the typing module of  *)
(* Python 3.5/3.6 (the versions the source names) gives them.  A call that *)
(* may raise returns a record whose err field is "ok" or the name of the   *)
(* exception class raised.  Assertions are enabled, as the tests expect    *)
(* (AssertionError on a key mismatch).                                     *)
(***************************************************************************)
EXTENDS Integers, Sequences, FiniteSets, TLC

VARIABLES cls, status, inst, last

vars == <<cls, status, inst, last>>

(* Bounds of the value universe. *)
MaxInt == 1
MaxLen == 2

(***************************************************************************)
(* Python values                                                           *)
(***************************************************************************)
IntV(n) == [k |-> "int", v |-> n]
FloatV(n) == [k |-> "float", v |-> n]
BoolV(n) == [k |-> "bool", v |-> n]
StrV(s) == [k |-> "str", v |-> s]
NoneV == [k |-> "NoneType", v |-> 0]
DateV(s) == [k |-> "datetime", v |-> s]
DictV(items) == [k |-> "dict", v |-> items]
ListV(elems) == [k |-> "list", v |-> elems]
ClassV(name) == [k |-> "DTOMeta", v |-> name]
DTOV(name, init, vals) == [k |-> "DTO", v |-> [cls |-> name, init |-> init, vals |-> vals]]
Missing == [k |-> "missing", v |-> 0]

(* dict.keys() and dict[key] of a dict value, whose items are <<key, value>> pairs in insertion order *)
Keys(d) == {d.v[i][1] : i \in DOMAIN d.v}
HasKey(d, key) == \E i \in DOMAIN d.v : d.v[i][1] = key
Lookup(d, key) == d.v[CHOOSE i \in DOMAIN d.v : d.v[i][1] = key][2]

(***************************************************************************)
(* Type expressions                                                        *)
(***************************************************************************)
Scalar(kind) == [tag |-> "scalar", x |-> kind]
NoneT == [tag |-> "NoneType", x |-> "NoneType"]
UnionT(members) == [tag |-> "Union", x |-> members]
OptionalT(t) == UnionT(<<t, NoneT>>)
DTORef(name) == [tag |-> "DTO", x |-> name]
DictT(kv) == [tag |-> "Dict", x |-> kv]
ListT(e) == [tag |-> "List", x |-> e]
UnknownT(name) == [tag |-> "class", x |-> name]

Ok(t) == [err |-> "ok", t |-> t]
Raise(e) == [err |-> e, t |-> NoneT]

(* isinstance(value, type_) for the builtin classes of line 25: bool is a subclass of int *)
IsInstanceBuiltin(value, kind) ==
    \/ value.k = kind
    \/ value.k = "bool" /\ kind = "int"

(***************************************************************************)
(* Declared classes.  A class is [name, partial, fields]; a field is       *)
(* [name, type, immutable, validator, coerce].  An option is "None" when   *)
(* absent, the name of a function, or "one"/"zero" for the integers 1/0.   *)
(***************************************************************************)
Field(name, type, immutable, validator, coerce) ==
    [name |-> name, type |-> type, immutable |-> immutable,
     validator |-> validator, coerce |-> coerce]

Plain(name, type) == Field(name, type, TRUE, "None", "None")

Class(name, partial, fields) == [name |-> name, partial |-> partial, fields |-> fields]

FieldNames(c) == {c.fields[i].name : i \in DOMAIN c.fields}
FieldIndex(c, name) == CHOOSE i \in DOMAIN c.fields : c.fields[i].name = name

(* Classes that nested fields refer to (test_partial_nested_dto). *)
AddressDTO == Class("AddressDTO", FALSE, <<Plain("city", Scalar("str"))>>)
CarDTO ==
    Class("CarDTO", TRUE,
          <<Field("year", Scalar("int"), TRUE, "gt0", "None"), Plain("license", Scalar("str"))>>)

Registry(name) == IF name = "AddressDTO" THEN AddressDTO ELSE CarDTO

(***************************************************************************)
(* type_checker.py                                                         *)
(***************************************************************************)
RECURSIVE _check_type(_, _)
RECURSIVE UnionMatches(_, _, _, _)
RECURSIVE DictItems(_, _, _)
RECURSIVE ListItems(_, _, _)
RECURSIVE FullItems(_, _, _)
RECURSIVE PartialItems(_, _, _)

(* DTOMeta.__instancecheck__: is_ is True/False, or err names what it raised *)
Answer(b) == [err |-> "ok", is_ |-> b]
Raised(e) == [err |-> e, is_ |-> FALSE]

(* the loop of lines 94-98 from item i on *)
FullItems(c, d, i) ==
    IF i > Len(d.v) THEN Answer(TRUE)
    ELSE LET key == d.v[i][1]
             declared == key.k = "str" /\ key.v \in FieldNames(c)
         IN IF ~declared THEN Raised("KeyError")
            ELSE LET r == _check_type(c.fields[FieldIndex(c, key.v)].type, d.v[i][2])
                 IN IF r.err = "TypeError" THEN Answer(FALSE)
                    ELSE IF r.err # "ok" THEN Raised(r.err)
                    ELSE FullItems(c, d, i + 1)

(* the loop of lines 100-104 from declared field i on *)
PartialItems(c, d, i) ==
    IF i > Len(c.fields) THEN Answer(TRUE)
    ELSE LET key == StrV(c.fields[i].name)
         IN IF ~HasKey(d, key) THEN Answer(FALSE)
            ELSE LET r == _check_type(c.fields[i].type, Lookup(d, key))
                 IN IF r.err \in {"TypeError", "KeyError"} THEN Answer(FALSE)
                    ELSE IF r.err # "ok" THEN Raised(r.err)
                    ELSE PartialItems(c, d, i + 1)

InstanceCheck(c, value) ==
    IF value.k = "DTOMeta" THEN Answer(TRUE)
    ELSE IF value.k = "dict"
    THEN IF ~c.partial
         THEN IF Len(value.v) # Len(c.fields) THEN Answer(FALSE)
              ELSE FullItems(c, value, 1)
         ELSE PartialItems(c, value, 1)
    ELSE Answer(FALSE)

(* isinstance(value, type_) for a DTO class: an object of exactly that class is an
   instance without __instancecheck__ being asked *)
IsInstanceDTO(value, name) ==
    IF value.k = "DTO" /\ value.v.cls = name THEN Answer(TRUE)
    ELSE InstanceCheck(Registry(name), value)

_check_type_None(type_, value) ==
    IF value.k # "NoneType" THEN Raise("TypeError") ELSE Ok(type_)

(* the loop of lines 63-69 from member i on: the resolved types of the members that match,
   or the exception of the first member that raises something other than TypeError *)
UnionMatches(args, value, i, matched) ==
    IF i > Len(args) THEN [err |-> "ok", matched |-> matched]
    ELSE LET r == _check_type(args[i], value)
         IN IF r.err = "TypeError" THEN UnionMatches(args, value, i + 1, matched)
            ELSE IF r.err # "ok" THEN [err |-> r.err, matched |-> matched]
            ELSE UnionMatches(args, value, i + 1, Append(matched, r.t))

_check_type_Union_first_match(type_, value) ==
    LET m == UnionMatches(type_.x, value, 1, <<>>)
    IN IF m.err # "ok" THEN Raise(m.err)
       ELSE IF m.matched = <<>> THEN Raise("TypeError")
       ELSE _check_type(m.matched[1], value)

_check_type_Union(type_, value) ==
    LET m == UnionMatches(type_.x, value, 1, <<>>)
    IN IF m.err # "ok" THEN Raise(m.err)
       ELSE IF m.matched = <<>> THEN Raise("TypeError")
       ELSE IF Len(m.matched) # 1 THEN Raise("AssertionError")
       ELSE _check_type(m.matched[1], value)

(* the loop of lines 89-91 from item i on: line 90 checks the item's value against the
   first type parameter, line 91 the item's key against the second *)
DictItems(type_, value, i) ==
    IF i > Len(value.v) THEN Ok(type_)
    ELSE LET key_type == type_.x[1]
             value_type == type_.x[2]
             k == value.v[i][1]
             v == value.v[i][2]
             r1 == _check_type(key_type, v)
         IN IF r1.err # "ok" THEN Raise(r1.err)
            ELSE LET r2 == _check_type(value_type, k)
                 IN IF r2.err # "ok" THEN Raise(r2.err)
                    ELSE DictItems(type_, value, i + 1)

_check_type_Dict(type_, value) ==
    IF value.k # "dict" THEN Raise("TypeError")
    ELSE IF type_.x # <<>> THEN DictItems(type_, value, 1)
    ELSE Ok(type_)

ListItems(type_, value, i) ==
    IF i > Len(value.v) THEN Ok(type_)
    ELSE LET r == _check_type(type_.x[1], value.v[i])
         IN IF r.err # "ok" THEN Raise(r.err) ELSE ListItems(type_, value, i + 1)

_check_type_List(type_, value) ==
    IF value.k # "list" THEN Raise("TypeError")
    ELSE IF type_.x # <<>> THEN ListItems(type_, value, 1)
    ELSE Ok(type_)

_check_type(type_, value) ==
    IF type_.tag = "Union" THEN _check_type_Union(type_, value)
    ELSE IF type_.tag = "scalar"
    THEN IF ~IsInstanceBuiltin(value, type_.x) THEN Raise("TypeError") ELSE Ok(type_)
    ELSE IF type_.tag = "DTO"
    THEN LET r == IsInstanceDTO(value, type_.x)
         IN IF r.err # "ok" THEN Raise(r.err)
            ELSE IF ~r.is_ THEN Raise("TypeError")
            ELSE Ok(type_)
    ELSE IF type_.tag = "Dict" THEN _check_type_Dict(type_, value)
    ELSE IF type_.tag = "List" THEN _check_type_List(type_, value)
    ELSE IF type_.tag = "NoneType" THEN _check_type_None(type_, value)
    ELSE Raise("NotImplementedError")



(***************************************************************************)
(* The functions and non-functions that the options of a field name        *)
(***************************************************************************)
Returns(value) == [err |-> "ok", val |-> value]
Throws(e) == [err |-> e, val |-> NoneV]

(* callable(f) *)
Callable(f) == f \in {"gt0", "strptime"}

(* bool(f): None and 0 are false *)
Truthy(f) == f \notin {"None", "zero"}

Numeric(value) == value.k \in {"int", "float", "bool"}

(* the text that strptime(value, '%Y-%m-%d') parses *)
ParseableDates == {"2011-01-03"}

(* f(value), for "gt0" = lambda x: x > 0 (test_dto.py line 31), "strptime" = lambda value:
   datetime.strptime(value, '%Y-%m-%d') (test_dto.py line 180) and the integers 1 and 0 *)
Call(f, value) ==
    IF f = "gt0"
    THEN IF Numeric(value) THEN Returns(BoolV(IF value.v > 0 THEN 1 ELSE 0))
         ELSE Throws("TypeError")
    ELSE IF f = "strptime"
    THEN IF value.k # "str" THEN Throws("TypeError")
         ELSE IF value.v \in ParseableDates THEN Returns(DateV(value.v))
         ELSE Throws("ValueError")
    ELSE Throws("TypeError")

(* bool(value) of what a validator returns *)
IsTrue(value) == ~(value.k = "NoneType" \/ (Numeric(value) /\ value.v = 0))

(***************************************************************************)
(* pydto.py: DTODescriptor                                                 *)
(***************************************************************************)
(* DTODescriptor.__init__: "ok", or the exception it raises *)
DescriptorInit(d) ==
    IF Truthy(d.validator) /\ ~Callable(d.validator) THEN "TypeError"
    ELSE IF Truthy(d.coerce) /\ ~Callable(d.coerce) THEN "TypeError"
    ELSE "ok"

(* DTODescriptor.__get__ *)
DescriptorGet(d, obj) ==
    IF ~obj.init[d.name] THEN Throws("AttributeError")
    ELSE Returns(IF obj.vals[d.name] = Missing THEN NoneV ELSE obj.vals[d.name])

(* DTODescriptor._check_value: the exception raised, and whether the validator was called *)
_check_value(d, value) ==
    IF d.validator # "None"
    THEN LET r == Call(d.validator, value)
         IN IF r.err # "ok" THEN [err |-> r.err, called |-> TRUE]
            ELSE IF ~IsTrue(r.val) THEN [err |-> "ValueError", called |-> TRUE]
            ELSE [err |-> "ok", called |-> TRUE]
    ELSE [err |-> "ok", called |-> FALSE]

_check_type_dto_descriptor(d, value) ==
    LET r == _check_type(d.type, value)
    IN IF r.err = "TypeError" THEN Raise("TypeError") ELSE r

SetResult(e, obj, called) == [err |-> e, obj |-> obj, called |-> called]

Store(d, obj, value) ==
    [obj EXCEPT !.vals[d.name] = value, !.init[d.name] = TRUE]

(* line 42 *)
NeverLocked(d, obj) == FALSE

Locked(d, obj) == d.immutable /\ obj.init[d.name]

(* line 48 *)
NeverNoneType(t) == FALSE

IsNoneType(t) == t = NoneT

(* lines 52-53 and 55 *)
StoreThenCheck(d, obj, value) ==
    LET c == _check_value(d, value)
    IN SetResult(c.err, Store(d, obj, value), c.called)

CheckThenStore(d, obj, value) ==
    LET c == _check_value(d, value)
    IN IF c.err # "ok" THEN SetResult(c.err, obj, c.called)
       ELSE SetResult("ok", Store(d, obj, value), c.called)

(* lines 39-40: the value after coercion *)
Coerced(d, raw) == IF Truthy(d.coerce) THEN Call(d.coerce, raw) ELSE Returns(raw)

(* DTODescriptor.__set__ *)
DescriptorSet(d, obj, raw) ==
    LET c == Coerced(d, raw)
    IN IF c.err # "ok" THEN SetResult(c.err, obj, FALSE)
       ELSE IF Locked(d, obj) THEN SetResult("AttributeError", obj, FALSE)
       ELSE LET t == _check_type_dto_descriptor(d, c.val)
            IN IF t.err # "ok" THEN SetResult(t.err, obj, FALSE)
               ELSE IF IsNoneType(t.t) THEN SetResult("ok", Store(d, obj, NoneV), FALSE)
               ELSE CheckThenStore(d, obj, c.val)

(***************************************************************************)
(* pydto.py: DTOMeta and DTO                                               *)
(***************************************************************************)
RECURSIVE Descriptors(_, _)
RECURSIVE SetAll(_, _, _, _)
RECURSIVE to_dict(_, _)
RECURSIVE PyEq(_, _)
RECURSIVE EqFields(_, _, _, _)

(* the loop of lines 78-83 from field i on *)
Descriptors(c, i) ==
    IF i > Len(c.fields) THEN "created"
    ELSE IF DescriptorInit(c.fields[i]) # "ok" THEN DescriptorInit(c.fields[i])
    ELSE Descriptors(c, i + 1)

(* DTOMeta.__new__: "created", or the exception that ends the class statement *)
DTOMetaNew(c) == Descriptors(c, 1)

NoInst == [live |-> FALSE, init |-> <<>>, vals |-> <<>>]

(* DTO.__new__ *)
DTONew(c) ==
    [live |-> TRUE,
     init |-> [n \in FieldNames(c) |-> FALSE],
     vals |-> [n \in FieldNames(c) |-> Missing]]

DeclaredKeys(c) == {StrV(n) : n \in FieldNames(c)}

(* the assertions of lines 146-155 *)
KeysMatch(c, d) ==
    IF ~c.partial THEN Keys(d) = DeclaredKeys(c)
    ELSE DeclaredKeys(c) \subseteq Keys(d) /\ DeclaredKeys(c) # Keys(d)

(* the loop of lines 157-158 from field i on; setattr ends in DTODescriptor.__set__ *)
SetAll(c, obj, d, i) ==
    IF i > Len(c.fields) THEN [err |-> "ok", obj |-> obj]
    ELSE LET r == DescriptorSet(c.fields[i], obj, Lookup(d, StrV(c.fields[i].name)))
         IN IF r.err # "ok" THEN [err |-> r.err, obj |-> obj]
            ELSE SetAll(c, r.obj, d, i + 1)

(* cls(dto_dict): DTO.__new__ then DTO.__init__; obj is the new object when err is "ok" *)
DTOInit(c, d) ==
    IF ~KeysMatch(c, d) THEN [err |-> "AssertionError", obj |-> NoInst]
    ELSE SetAll(c, DTONew(c), d, 1)

(* DTO.to_dict: the items of _dto_descriptors_values, a DTO among them serialized in turn *)
to_dict(c, obj) ==
    LET item(i) ==
            LET n == c.fields[i].name
                value == obj.vals[n]
            IN <<StrV(n), IF value.k = "DTO" THEN to_dict(Registry(value.v.cls), value.v)
                                              ELSE value>>
        RECURSIVE items(_)
        items(i) ==
            IF i > Len(c.fields) THEN <<>>
            ELSE IF obj.vals[c.fields[i].name] = Missing THEN items(i + 1)
            ELSE <<item(i)>> \o items(i + 1)
    IN DictV(items(1))

(* a == b for Python values: numbers compare by value across int, float and bool *)
PyEq(x, y) ==
    IF Numeric(x) /\ Numeric(y) THEN x.v = y.v
    ELSE IF x.k # y.k THEN FALSE
    ELSE IF x.k = "list"
    THEN Len(x.v) = Len(y.v) /\ \A i \in DOMAIN x.v : PyEq(x.v[i], y.v[i])
    ELSE IF x.k = "dict"
    THEN /\ Len(x.v) = Len(y.v)
         /\ \A i \in DOMAIN x.v :
                \E j \in DOMAIN y.v : PyEq(x.v[i][1], y.v[j][1]) /\ PyEq(x.v[i][2], y.v[j][2])
    ELSE x = y

(* the loop of lines 182-184 from field i on *)
EqFields(c, a, b, i) ==
    IF i > Len(c.fields) THEN Answer(TRUE)
    ELSE LET x == DescriptorGet(c.fields[i], a)
             y == DescriptorGet(c.fields[i], b)
         IN IF x.err # "ok" THEN Raised(x.err)
            ELSE IF y.err # "ok" THEN Raised(y.err)
            ELSE IF ~PyEq(x.val, y.val) THEN Answer(FALSE)
            ELSE EqFields(c, a, b, i + 1)

(* DTO.__eq__ of object a of class ca and object b of class cb *)
DTOEq(ca, a, cb, b) ==
    IF ca.name # cb.name THEN Answer(FALSE)
    ELSE IF FieldNames(ca) # FieldNames(cb) THEN Answer(FALSE)
    ELSE EqFields(ca, a, b, 1)


(***************************************************************************)
(* The class statements, the dictionaries and the raw values tried         *)
(***************************************************************************)
SimpleDTO == Class("SimpleDTO", FALSE, <<Plain("attribute", Scalar("int"))>>)

Declarations ==
    {SimpleDTO,
     Class("ValidatedDTO", FALSE, <<Field("attribute", Scalar("int"), TRUE, "gt0", "None")>>),
     Class("WrongValidator", FALSE, <<Field("attribute", Scalar("int"), TRUE, "one", "None")>>),
     Class("FalsyValidator", FALSE, <<Field("attribute", Scalar("int"), TRUE, "zero", "None")>>),
     Class("WrongCoerce", FALSE, <<Field("attribute", Scalar("int"), TRUE, "None", "one")>>),
     Class("FalsyCoerce", FALSE, <<Field("attribute", Scalar("int"), TRUE, "None", "zero")>>),
     Class("MutableDTO", FALSE, <<Field("attribute", Scalar("float"), FALSE, "None", "None")>>),
     Class("CoerceDTO", FALSE,
           <<Plain("age", Scalar("int")),
             Field("date", Scalar("datetime"), TRUE, "None", "strptime")>>),
     Class("PartialDTO", TRUE, <<Plain("age", Scalar("int"))>>),
     Class("UserDTO", FALSE,
           <<Field("email", Scalar("str"), FALSE, "None", "None"),
             Field("salary", OptionalT(Scalar("float")), FALSE, "gt0", "None")>>),
     Class("EventDTO", FALSE,
           <<Field("date", OptionalT(Scalar("datetime")), TRUE, "None", "strptime")>>),
     Class("BlobDTO", FALSE, <<Plain("payload", OptionalT(UnknownT("bytes")))>>),
     Class("OwnerDTO", FALSE, <<Plain("address", DTORef("AddressDTO"))>>)}

Scranton == DictV(<< <<StrV("city"), StrV("scranton")>> >>)
AnAddress == DTOV("AddressDTO", [n \in {"city"} |-> TRUE], [n \in {"city"} |-> StrV("scranton")])

HasNested(c) == \E i \in DOMAIN c.fields : c.fields[i].type.tag = "DTO"

RawValues(c) ==
    {IntV(n) : n \in 0..MaxInt} \cup {FloatV(n) : n \in 0..MaxInt}
        \cup {BoolV(1), StrV("2011-01-03"), StrV("x"), NoneV}
        \cup (IF HasNested(c) THEN {Scranton, AnAddress} ELSE {})

(* the dictionary whose keys are in the order given, a key mapped to Missing left out *)
DictOf(order, f) ==
    DictV(SelectSeq([i \in DOMAIN order |-> <<StrV(order[i]), f[i]>>],
                    LAMBDA p : p[2] # Missing))

KeyOrder(c) ==
    [i \in 1..(Len(c.fields) + 1) |-> IF i <= Len(c.fields) THEN c.fields[i].name ELSE "extra"]

(* every dictionary over the declared names and one undeclared name *)
InputDicts(c) ==
    {DictOf(KeyOrder(c), f) :
        f \in {g \in [1..(Len(c.fields) + 1) -> RawValues(c) \cup {Missing}] :
                 g[Len(c.fields) + 1] \in {Missing, StrV("x")}}}

(***************************************************************************)
(* Operations on one class and one object of it                            *)
(***************************************************************************)
Init ==
    /\ cls \in Declarations
    /\ status = "pending"
    /\ inst = NoInst
    /\ last = [op |-> "none"]

(* the class statement *)
Declare ==
    /\ status = "pending"
    /\ status' = DTOMetaNew(cls)
    /\ last' = [op |-> "declare", err |-> IF DTOMetaNew(cls) = "created" THEN "ok" ELSE DTOMetaNew(cls)]
    /\ UNCHANGED <<cls, inst>>

(* cls.__new__(cls) *)
New ==
    /\ status = "created"
    /\ inst' = DTONew(cls)
    /\ last' = [op |-> "new", err |-> "ok"]
    /\ UNCHANGED <<cls, status>>

(* cls(dto_dict) *)
Construct ==
    /\ status = "created"
    /\ \E d \in InputDicts(cls) :
          LET r == DTOInit(cls, d)
          IN /\ inst' = IF r.err = "ok" THEN r.obj ELSE inst
             /\ last' = [op |-> "construct", err |-> r.err, arg |-> d]
    /\ UNCHANGED <<cls, status>>

(* obj.field = raw *)
SetAttr ==
    /\ inst.live
    /\ \E i \in DOMAIN cls.fields, raw \in RawValues(cls) :
          LET r == DescriptorSet(cls.fields[i], inst, raw)
          IN /\ inst' = r.obj
             /\ last' = [op |-> "set", err |-> r.err, arg |-> raw, field |-> i,
                         pre |-> inst, called |-> r.called]
    /\ UNCHANGED <<cls, status>>

Next == Declare \/ New \/ Construct \/ SetAttr

Spec == Init /\ [][Next]_vars

(***************************************************************************)
(* The type checker on its own: one call of _check_type                    *)
(***************************************************************************)
StrT == Scalar("str")
IntT == Scalar("int")
BytesT == UnknownT("bytes")

TypeExprs ==
    {IntT, StrT, Scalar("float"), Scalar("bool"), Scalar("dict"), Scalar("list"), NoneT, BytesT,
     OptionalT(Scalar("float")), OptionalT(BytesT),
     UnionT(<<IntT, StrT>>), UnionT(<<IntT, BytesT>>), UnionT(<<StrT, Scalar("float"), NoneT>>),
     UnionT(<<ListT(<<IntT>>), ListT(<<StrT>>)>>),
     UnionT(<<DTORef("AddressDTO"), Scalar("dict")>>),
     UnionT(<<DTORef("AddressDTO"), DTORef("CarDTO")>>),
     DictT(<<StrT, IntT>>), DictT(<<IntT, StrT>>), DictT(<<>>), DictT(<<StrT, BytesT>>),
     ListT(<<IntT>>), ListT(<<>>), ListT(<<UnionT(<<IntT, StrT>>)>>),
     DTORef("AddressDTO"), DTORef("CarDTO")}

Atoms == {IntV(1), StrV("a")}

Lists == UNION {{ListV(e) : e \in [1..n -> Atoms]} : n \in 0..MaxLen}

DistinctKeys(items) == \A i, j \in DOMAIN items : i # j => items[i][1] # items[j][1]

Dicts ==
    UNION {{DictV(e) : e \in {f \in [1..n -> Atoms \X Atoms] : DistinctKeys(f)}} : n \in 0..MaxLen}

ACar == DictV(<< <<StrV("year"), IntV(1)>>, <<StrV("license"), StrV("a")>>, <<StrV("color"), StrV("a")>> >>)

Values ==
    {IntV(n) : n \in 0..MaxInt} \cup {FloatV(1), BoolV(1), StrV("a"), NoneV}
        \cup Lists \cup Dicts \cup {Scranton, ACar, AnAddress, ClassV("CarDTO")}

InitType ==
    /\ cls = SimpleDTO
    /\ status = "created"
    /\ inst = NoInst
    /\ last \in {[op |-> "call", type |-> t, value |-> x] : t \in TypeExprs, x \in Values}

CheckType ==
    /\ last.op = "call"
    /\ last' = [op |-> "_check_type", type |-> last.type, value |-> last.value,
                res |-> _check_type(last.type, last.value)]
    /\ UNCHANGED <<cls, status, inst>>

SpecType == InitType /\ [][CheckType]_vars

(***************************************************************************)
(* isinstance(value, cls) on its own: one call of DTOMeta.__instancecheck__ *)
(***************************************************************************)
PersonDTO == Class("PersonDTO", FALSE, <<Plain("age", IntT), Plain("name", StrT)>>)

CheckedClasses == {PersonDTO, AddressDTO, CarDTO, Class("OwnerDTO", FALSE, <<Plain("address", DTORef("AddressDTO"))>>)}

CandidateKeys(c) == FieldNames(c) \cup {"extra"}

CandidateValues(c) ==
    {IntV(1), StrV("a"), BoolV(1)} \cup (IF HasNested(c) THEN {Scranton, AnAddress} ELSE {})

(* the dictionaries over the declared names and one undeclared name, in every order of insertion *)
Candidates(c) ==
    UNION {{DictV(e) :
              e \in {f \in [1..n -> {StrV(key) : key \in CandidateKeys(c)} \X CandidateValues(c)] :
                        DistinctKeys(f)}} :
           n \in 0..Cardinality(CandidateKeys(c))}

InitInstance ==
    /\ cls \in CheckedClasses
    /\ status = "created"
    /\ inst = NoInst
    /\ last \in {[op |-> "call", value |-> x] : x \in Candidates(cls) \cup {AnAddress, IntV(1)}}

IsInstance ==
    /\ last.op = "call"
    /\ last' = [op |-> "isinstance", value |-> last.value, res |-> InstanceCheck(cls, last.value)]
    /\ UNCHANGED <<cls, status, inst>>

SpecInstance == InitInstance /\ [][IsInstance]_vars

(***************************************************************************)
(* Properties                                                              *)
(***************************************************************************)
(* the descriptor that the last obj.field = raw went to *)
SetField == cls.fields[last.field]

SetOnInitializedImmutable ==
    /\ last.op = "set"
    /\ SetField.immutable
    /\ last.pre.init[SetField.name]

(* C1 as stated: a set on an immutable field that an earlier set initialized fails with
   AttributeError, whatever the raw value and the coercion function, and get still returns
   the value stored first *)
C1_AnyLaterSetRaisesAttributeError ==
    SetOnInitializedImmutable =>
        /\ last.err = "AttributeError"
        /\ DescriptorGet(SetField, inst) = DescriptorGet(SetField, last.pre)

(* C1 amended: a set on an immutable field that an earlier set initialized always fails and
   changes nothing; it fails with AttributeError when the coercion function (if any) returns
   on the raw value, and with the coercion function's own exception when that raises *)
C1_LaterSetFails ==
    SetOnInitializedImmutable =>
        /\ last.err = (IF Coerced(SetField, last.arg).err # "ok"
                         THEN Coerced(SetField, last.arg).err
                         ELSE "AttributeError")
        /\ inst = last.pre
        /\ DescriptorGet(SetField, inst) = DescriptorGet(SetField, last.pre)
        /\ DescriptorGet(SetField, inst).err = "ok"

C1_Witness ==
    /\ SetOnInitializedImmutable
    /\ Truthy(SetField.coerce)
    /\ last.err = "AttributeError"

(* every declared field's value in d passes coercion, type check and validation *)
EveryFieldPasses(c, d) ==
    \A i \in DOMAIN c.fields :
        /\ HasKey(d, StrV(c.fields[i].name))
        /\ DescriptorSet(c.fields[i], DTONew(c), Lookup(d, StrV(c.fields[i].name))).err = "ok"

(* C2 as stated: a partial class is constructed from every dictionary whose keys include
   the declared names (equal key sets included) and whose declared values pass; the keys
   of to_dict() are then exactly the declared names *)
C2_PartialAcceptsSupersetOrEqual ==
    (/\ last.op = "construct"
     /\ cls.partial
     /\ DeclaredKeys(cls) \subseteq Keys(last.arg)
     /\ EveryFieldPasses(cls, last.arg))
        => /\ last.err = "ok"
           /\ Keys(to_dict(cls, inst)) = DeclaredKeys(cls)

(* C3 as stated: an object constructed from a class without nested fields is equal to the
   object constructed from its to_dict() *)
C3_RoundTrip ==
    (/\ last.op = "construct"
     /\ last.err = "ok"
     /\ ~HasNested(cls))
        => LET again == DTOInit(cls, to_dict(cls, inst))
           IN /\ again.err = "ok"
              /\ DTOEq(cls, again.obj, cls, inst) = Answer(TRUE)

(* the candidate has as many keys as c has fields and every field's type matches its entry *)
Conforms(c, d) ==
    /\ Len(d.v) = Len(c.fields)
    /\ \A i \in DOMAIN c.fields :
          /\ HasKey(d, StrV(c.fields[i].name))
          /\ _check_type(c.fields[i].type, Lookup(d, StrV(c.fields[i].name))).err = "ok"

(* C4 as stated: isinstance(dictionary, full-mode class) never raises, and is True exactly
   when the dictionary conforms *)
C4_FullModeCheckNeverRaises ==
    (/\ last.op = "isinstance"
     /\ ~cls.partial
     /\ last.value.k = "dict")
        => /\ last.res.err = "ok"
           /\ last.res.is_ <=> Conforms(cls, last.value)

HasNonCallableOption(c) ==
    \E i \in DOMAIN c.fields :
        \/ c.fields[i].validator # "None" /\ ~Callable(c.fields[i].validator)
        \/ c.fields[i].coerce # "None" /\ ~Callable(c.fields[i].coerce)

(* C5 as stated: a class statement with a validator or coerce option that is not callable
   (and not None) ends in TypeError, so no such class exists and no set reaches the option *)
C5_NonCallableOptionRejected ==
    (HasNonCallableOption(cls) /\ status # "pending") =>
        /\ status = "TypeError"
        /\ ~inst.live

(* the value is a dict whose every key matches K and whose every value matches V *)
KeysAndValuesMatch(t, x) ==
    /\ x.k = "dict"
    /\ \A i \in DOMAIN x.v :
          /\ _check_type(t.x[1], x.v[i][1]).err = "ok"
          /\ _check_type(t.x[2], x.v[i][2]).err = "ok"

(* C6 as stated: Dict[K, V] accepts a value exactly when it is a dict whose keys match K
   and whose values match V, and rejects every other value with TypeError *)
C6_DictChecksKeysAgainstK ==
    (/\ last.op = "_check_type"
     /\ last.type.tag = "Dict"
     /\ last.type.x # <<>>)
        => /\ last.res.err = "ok" <=> KeysAndValuesMatch(last.type, last.value)
           /\ ~KeysAndValuesMatch(last.type, last.value) => last.res.err = "TypeError"

(* what trying member i of the union of the last call gives *)
Member(i) == _check_type(last.type.x[i], last.value)
Matching == {i \in DOMAIN last.type.x : Member(i).err = "ok"}
Aborting == {i \in DOMAIN last.type.x : Member(i).err \notin {"ok", "TypeError"}}
ByMatches ==
    /\ Matching = {} => last.res.err = "TypeError"
    /\ Cardinality(Matching) = 1 => \A i \in Matching : last.res = Member(i)
    /\ Cardinality(Matching) > 1 => last.res.err = "AssertionError"

UnionCall == last.op = "_check_type" /\ last.type.tag = "Union"

(* C7 as stated: for every union and every value, no matching member gives TypeError,
   exactly one gives that member's resolved type, two or more give AssertionError *)
C7_UnionByNumberOfMatches == UnionCall => ByMatches

(* C7 amended: the members are tried in order; the first member whose check raises
   something other than TypeError (NotImplementedError for a type the checker does not
   know, AssertionError or KeyError from inside the member) ends the call with that
   exception; when no member does, the number of matching members decides as stated *)
C7_UnionByNumberOfMatchesUnlessAborted ==
    UnionCall =>
        IF Aborting # {}
        THEN \A i \in Aborting : (\A j \in Aborting : i <= j) => last.res.err = Member(i).err
        ELSE ByMatches

C7_Witness ==
    /\ UnionCall
    /\ Aborting = {}
    /\ Cardinality(Matching) > 1
    /\ last.res.err = "AssertionError"

Nullable(t) == t = NoneT \/ (t.tag = "Union" /\ \E i \in DOMAIN t.x : t.x[i] = NoneT)

NullSetOnOpenField ==
    /\ last.op = "set"
    /\ Nullable(SetField.type)
    /\ last.arg = NoneV
    /\ ~(SetField.immutable /\ last.pre.init[SetField.name])

NullStoredValidatorSkipped ==
    /\ last.err = "ok"
    /\ ~last.called
    /\ inst.init[SetField.name]
    /\ inst.vals[SetField.name] = NoneV
    /\ DescriptorGet(SetField, inst) = Returns(NoneV)

(* no member of the type raises anything but TypeError when None is checked against it *)
MembersDecideNone(t) ==
    t.tag = "Union" =>
        \A i \in DOMAIN t.x : _check_type(t.x[i], NoneV).err \in {"ok", "TypeError"}

(* C8 as stated: setting a field of a nullable type (one that immutability does not close)
   to None stores None, marks the field initialized so that get returns None, and does
   not call the validator *)
C8_NoneStoredValidatorSkipped == NullSetOnOpenField => NullStoredValidatorSkipped

(* C8 amended: the same, when the None reaches the type check and the check can decide:
   the field has no coercion function, or one that returns None for None (a coercion
   function is applied to the raw None first and may raise or return another value), and
   no other member of the declared type is a type the checker does not know *)
C8_NoneSkipsValidator ==
    (/\ NullSetOnOpenField
     /\ Coerced(SetField, last.arg) = Returns(NoneV)
     /\ MembersDecideNone(SetField.type))
        => NullStoredValidatorSkipped

C8_Witness ==
    /\ last.op = "set"
    /\ Nullable(SetField.type)
    /\ last.arg = NoneV
    /\ SetField.validator = "gt0"
    /\ Call(SetField.validator, NoneV).err # "ok"
    /\ last.err = "ok"
    /\ DescriptorGet(SetField, inst) = Returns(NoneV)

(* C9 as stated: a scalar field (here the first field of a class whose options are
   callable, without coercion) accepts a value exactly when the value's kind is the
   declared kind, and constructing with a value of another kind raises TypeError *)
C9_ScalarKindExact ==
    (/\ last.op = "construct"
     /\ KeysMatch(cls, last.arg)
     /\ ~HasNonCallableOption(cls)
     /\ cls.fields[1].type.tag = "scalar"
     /\ ~Truthy(cls.fields[1].coerce))
        => LET x == Lookup(last.arg, StrV(cls.fields[1].name))
           IN /\ x.k = cls.fields[1].type.x <=> _check_type(cls.fields[1].type, x).err = "ok"
              /\ x.k # cls.fields[1].type.x => last.err = "TypeError"

(* C10: a set that fails leaves the object as it was, the field set and every other field;
   a mutable field can be set to a valid value afterwards *)
C10_FailedSetChangesNothing ==
    (last.op = "set" /\ last.err # "ok") =>
        /\ inst = last.pre
        /\ \A i \in DOMAIN cls.fields :
              DescriptorGet(cls.fields[i], inst) = DescriptorGet(cls.fields[i], last.pre)
        /\ ~SetField.immutable =>
              \E raw \in RawValues(cls) :
                  LET r == DescriptorSet(SetField, inst, raw)
                  IN /\ r.err = "ok"
                     /\ DescriptorGet(SetField, r.obj) = Returns(Coerced(SetField, raw).val)

C10_Witness ==
    /\ last.op = "set"
    /\ last.err = "ValueError"
    /\ ~SetField.immutable
    /\ last.pre.init[SetField.name]
    /\ DescriptorGet(SetField, inst).err = "ok"
    /\ \E i \in DOMAIN cls.fields : ~inst.init[cls.fields[i].name]
====
